---- MODULE Spec2Model ----
(***************************************************************************)
(* A model of the validator's evaluate-score-commit loop                   *)
(* (bittensor/_neuron/text/core_validator/validator_impl.py) and of the    *)
(* chain interface it commits through                                      *)
(* (bittensor/_subtensor/subtensor_impl.py).                               *)
(*                                                                         *)
(* Three specifications share the module:                                  *)
(*   Spec        Neuron.run / Neuron.run_epoch, the epoch scheduler;       *)
(*   SpecCommit  Subtensor._do_set_weights against a ledger;               *)
(*   SpecQuery   the @retry-wrapped chain queries.                         *)
(***************************************************************************)
EXTENDS Integers, Sequences, FiniteSets, TLC

\* ------------------------------------------------------------------ bounds

\* Values a chain query may answer with: 0..MaxValue.
MaxValue == 1
\* Calls of _do_set_weights one behaviour makes.
MaxCommits == 2
\* Peers on the chain: 0..MaxPeers.
MaxPeers == 2
\* The chain's block height stops at MaxBlock.
MaxBlock == 2
\* Steps one behaviour makes (self.global_step is never reset).
MaxSteps == 2
\* Epoch indices: 0..MaxEpoch.
MaxEpoch == 1
\* config.neuron.blocks_per_epoch
BlocksPerEpoch == 1
\* config.neuron.epochs_until_reset
EpochsUntilReset == 2
\* config.neuron.n_topk_peer_weights
NTopkPeerWeights == 1
\* Peers of the metagraph a single step is given: 0..StepMaxPeers.
StepMaxPeers == 3
\* get_target_loss gives 0..MaxLoss.
MaxLoss == 2
\* Keys of a subnet's connection requirements: 0..MaxRecords.
MaxRecords == 2

\* --------------------------------------------------------------- constants

\* @retry(delay=2, tries=3, backoff=2, max_delay=4)
RetryTries == 3
RetryDelay == 2
RetryBackoff == 2
RetryMaxDelay == 4

\* Python's None, where an integer is expected / where a message is expected.
NoneV == 0 - 1
NoneMsg == "None"

Min(a, b) == IF a <= b THEN a ELSE b

VARIABLES
    \* --- the retry-wrapped chain query (make_substrate_call_with_retry)
    qpc,            \* "idle" | "attempt" | "returned" | "raised"
    q_name,         \* which wrapper of Subtensor is running
    q_tries,        \* retry's _tries: attempts left
    q_delay,        \* retry's _delay: the next sleep
    q_trace,        \* the outcome of every attempt so far: <<kind, value>>
    q_sleeps,       \* the sleeps made between the attempts
    q_ret,          \* the value returned to the caller
    q_exc,          \* the exception surfaced to the caller
    \* --- Subtensor._do_set_weights and the ledger
    cpc,            \* "idle" | "compose" | "submit" | "sent" | "responded" | "done" | "raised"
    c_call,         \* the arguments of the running call
    c_tx,           \* index in txs of the transaction this call handed over, 0: none
    c_submits,      \* calls of substrate.submit_extrinsic made by the running call
    c_processed,    \* response.process_events() was called
    c_resp,         \* the response submit_extrinsic returned
    c_ret,          \* the (success, error_message) pair returned
    c_exc,          \* the exception the call raised
    c_hist,         \* the completed calls, oldest first
    txs,            \* every transaction handed to the ledger
    ledger_weights, \* the weight vector committed on the ledger for this validator
    ledger_writer,  \* index in txs of the transaction that wrote it, 0: none yet
    \* --- Neuron.run / Neuron.run_epoch
    pc,                 \* where Neuron.run stands
    restart_on_failure, \* config.neuron.restart_on_failure
    network_mock,       \* subtensor.network == 'mock'
    registered,         \* wallet.is_registered( subtensor )
    epoch,              \* self.epoch
    global_step,        \* self.global_step
    epoch_steps,        \* run_epoch's epoch_steps
    score_history,      \* run_epoch's score_history
    start_block,        \* run_epoch's start_block
    metagraph_n,        \* the peers of the metagraph snapshot: uids 0..n-1
    nucleus,            \* "init" | "fresh" (reset_weights) | "trained"
    optimizer,          \* "none" | "fresh" (a new SGD) | "stepped"
    last_exc,           \* the exception that ended the last epoch run
    block,              \* the chain's current block
    chain_n,            \* the peers registered on the chain
    run_synced,         \* the current epoch run's sync has completed
    run_committed,      \* the current epoch run has invoked set_weights
    commit_calls,       \* per epoch index: invocations of subtensor.set_weights
    interrupted,        \* a KeyboardInterrupt has been delivered to the process
    moving_avg_scores,  \* run_epoch's moving_avg_scores, Unbound before a step binds it
    commit_vec,         \* the uids and weights the current run handed to set_weights
    \* --- one step: Nucleus.forward and the score update
    fpc,                \* "idle" | "gated" | "noised" | "routed" | "queried" | "scored" | "appended" | "raised"
    f_n,                \* metagraph.n of the metagraph passed in
    f_gate,             \* batchwise_routing_weights, per uid
    f_noise,            \* noisy_routing_weights, per uid
    f_routing_uids,     \* routing_uids: the peers selected for querying
    f_return_ops,       \* return_ops, parallel to routing_uids
    f_loss,             \* what get_target_loss gives each aggregate
    f_evaluated,        \* the aggregates whose loss the scoring computed
    f_scores,           \* the scores forward returned
    f_entry,            \* the entry appended to score_history
    f_exc,              \* the exception the step raised
    \* --- two epoch runs given the same step results
    p_pc,               \* "idle" | "setup" | "stepping"
    p_n,                \* metagraph.n of both runs
    p_prior,            \* per run, the history an earlier run left behind
    p_steps,            \* steps both runs have made
    p_history,          \* per run, score_history
    p_avg,              \* per run, moving_avg_scores
    \* --- chain calls of Subtensor that return what the chain answered
    u_pc,               \* "idle" | "returned" | "raised"
    u_fn,               \* the method called
    u_in,               \* its arguments and what the chain answered
    u_ret,              \* what it returned
    u_queries           \* chain calls it made

qvars == <<qpc, q_name, q_tries, q_delay, q_trace, q_sleeps, q_ret, q_exc>>
cvars == <<cpc, c_call, c_tx, c_submits, c_processed, c_resp, c_ret, c_exc,
           c_hist, txs, ledger_weights, ledger_writer>>
svars == <<pc, restart_on_failure, network_mock, registered, epoch, global_step,
           epoch_steps, score_history, start_block, metagraph_n, nucleus,
           optimizer, last_exc, block, chain_n, run_synced, run_committed,
           commit_calls, interrupted, moving_avg_scores, commit_vec>>
fvars == <<fpc, f_n, f_gate, f_noise, f_routing_uids, f_return_ops, f_loss,
           f_evaluated, f_scores, f_entry, f_exc>>
pvars == <<p_pc, p_n, p_prior, p_steps, p_history, p_avg>>
uvars == <<u_pc, u_fn, u_in, u_ret, u_queries>>
vars == <<qvars, cvars, svars, fvars, pvars, uvars>>

\* ======================================================================
\* The retry-wrapped chain queries
\* ======================================================================

\* The methods of Subtensor whose chain call is make_substrate_call_with_retry.
QueryNames == {"query_subtensor", "query_map_subtensor", "query_constant",
               "query_module", "query_map", "get_current_block"}

Values == 0..MaxValue

\* What one attempt of the wrapped call can raise: a transport fault, an
\* application-level error (both subclasses of Exception), or KeyboardInterrupt.
RaiseKinds == {"transport", "app", "interrupt"}

\* retry(exceptions=Exception) by default: every Exception is caught, whatever
\* its kind; KeyboardInterrupt is a BaseException and is not.
RetryCatches(kind) == kind \in {"transport", "app"}

\* _delay *= backoff; _delay = min(_delay, max_delay)
RetryNextDelayNoBackoff(d) == Min(d, RetryMaxDelay)
RetryNextDelay(d) == Min(d * RetryBackoff, RetryMaxDelay)

QInit ==
    /\ qpc = "idle"
    /\ q_name = "none"
    /\ q_tries = 0
    /\ q_delay = 0
    /\ q_trace = <<>>
    /\ q_sleeps = <<>>
    /\ q_ret = NoneV
    /\ q_exc = "none"

\* A caller enters one of the wrappers: _tries, _delay = tries, delay.
QueryCall(name) ==
    /\ qpc = "idle"
    /\ qpc' = "attempt"
    /\ q_name' = name
    /\ q_tries' = RetryTries
    /\ q_delay' = RetryDelay
    /\ q_trace' = <<>>
    /\ q_sleeps' = <<>>
    /\ q_ret' = NoneV
    /\ q_exc' = "none"
    /\ UNCHANGED <<cvars, svars, fvars, pvars, uvars>>

\* while _tries: try: return f()
QueryAttemptReturns(v) ==
    /\ qpc = "attempt"
    /\ q_tries > 0
    /\ q_trace' = Append(q_trace, <<"ok", v>>)
    /\ q_ret' = v
    /\ qpc' = "returned"
    /\ UNCHANGED <<q_name, q_tries, q_delay, q_sleeps, q_exc>>
    /\ UNCHANGED <<cvars, svars, fvars, pvars, uvars>>

\* except exceptions: _tries -= 1; if not _tries: raise; time.sleep(_delay);
\* _delay *= backoff; _delay = min(_delay, max_delay)
QueryAttemptRaises(kind) ==
    /\ qpc = "attempt"
    /\ q_tries > 0
    /\ q_trace' = Append(q_trace, <<kind, NoneV>>)
    /\ IF RetryCatches(kind)
       THEN /\ q_tries' = q_tries - 1
            /\ IF q_tries - 1 = 0
               THEN /\ qpc' = "raised"
                    /\ q_exc' = kind
                    /\ UNCHANGED <<q_delay, q_sleeps>>
               ELSE /\ qpc' = "attempt"
                    /\ q_sleeps' = Append(q_sleeps, q_delay)
                    /\ q_delay' = RetryNextDelay(q_delay)
                    /\ UNCHANGED q_exc
       ELSE /\ qpc' = "raised"
            /\ q_exc' = kind
            /\ UNCHANGED <<q_tries, q_delay, q_sleeps>>
    /\ UNCHANGED <<q_name, q_ret>>
    /\ UNCHANGED <<cvars, svars, fvars, pvars, uvars>>

\* The caller has its answer; the wrapper can be entered again.
QueryFinish ==
    /\ qpc \in {"returned", "raised"}
    /\ qpc' = "idle"
    /\ q_name' = "none"
    /\ q_tries' = 0
    /\ q_delay' = 0
    /\ q_trace' = <<>>
    /\ q_sleeps' = <<>>
    /\ q_ret' = NoneV
    /\ q_exc' = "none"
    /\ UNCHANGED <<cvars, svars, fvars, pvars, uvars>>

QNext ==
    \/ \E name \in QueryNames : QueryCall(name)
    \/ \E v \in Values : QueryAttemptReturns(v)
    \/ \E kind \in RaiseKinds : QueryAttemptRaises(kind)
    \/ QueryFinish

\* ======================================================================
\* Subtensor._do_set_weights and the ledger
\* ======================================================================

\* The (uids, vals) pairs a caller commits.
WeightVectors == { [uids |-> <<0>>, vals |-> <<65535>>],
                   [uids |-> <<0, 1>>, vals |-> <<65535, 32767>>] }
NoVector == [uids |-> <<>>, vals |-> <<>>]

\* The ledger's error for a transaction it rejects.
RejectMsgs == {"InsufficientStake", "SettingWeightsTooFast"}

NoCall == [vec |-> NoVector, wfi |-> FALSE, wff |-> FALSE]
NoResp == [has_block |-> FALSE, is_success |-> FALSE, error_message |-> NoneMsg]
NoRet == <<>>

\* What a call that ends by raising reports as success: a swallowed exception
\* turned into a success pair.
RaisedResultSuccess == <<TRUE, NoneMsg>>

\* _do_set_weights has no try/except: an exception raised inside it
\* propagates to the caller, which gets no (success, error_message) pair.
RaisedResult == NoRet

\* submit_extrinsic( extrinsic, wait_for_inclusion, wait_for_finalization ):
\* with a wait flag it returns once the ledger has processed the transaction.
SubmitWaits(wfi, wff) == wfi \/ wff

\* if not wait_for_finalization and not wait_for_inclusion:
FireAndForgetNever(wfi, wff) == FALSE
FireAndForgetIgnoresInclusion(wfi, wff) == ~wff
FireAndForget(wfi, wff) == ~wff /\ ~wfi

\* return True, None
FireAndForgetResultBare == <<TRUE>>
FireAndForgetResult == <<TRUE, NoneMsg>>

\* if response.is_success: return True, None
\* else: return False, response.error_message
ResultOfIgnoresOutcome(resp) == <<TRUE, NoneMsg>>
ResultOfInverted(resp) ==
    IF resp.is_success THEN <<FALSE, resp.error_message>> ELSE <<TRUE, NoneMsg>>
ResultOf(resp) ==
    IF resp.is_success THEN <<TRUE, NoneMsg>> ELSE <<FALSE, resp.error_message>>

CInit ==
    /\ cpc = "idle"
    /\ c_call = NoCall
    /\ c_tx = 0
    /\ c_submits = 0
    /\ c_processed = FALSE
    /\ c_resp = NoResp
    /\ c_ret = NoRet
    /\ c_exc = "none"
    /\ c_hist = <<>>
    /\ txs = <<>>
    /\ ledger_weights = NoVector
    /\ ledger_writer = 0

\* A caller enters _do_set_weights( wallet, uids, vals, netuid, version_key,
\* wait_for_inclusion, wait_for_finalization ).
DoSetWeightsCall(vec, wfi, wff) ==
    /\ cpc = "idle"
    /\ Len(c_hist) < MaxCommits
    /\ cpc' = "compose"
    /\ c_call' = [vec |-> vec, wfi |-> wfi, wff |-> wff]
    /\ c_tx' = 0
    /\ c_submits' = 0
    /\ c_processed' = FALSE
    /\ c_resp' = NoResp
    /\ c_ret' = NoRet
    /\ c_exc' = "none"
    /\ UNCHANGED <<c_hist, txs, ledger_weights, ledger_writer>>
    /\ UNCHANGED <<qvars, svars, fvars, pvars, uvars>>

\* with self.substrate as substrate: compose_call(...); create_signed_extrinsic(...)
\* Either builds the extrinsic or raises.
DoSetWeightsCompose ==
    /\ cpc = "compose"
    /\ \/ /\ cpc' = "submit"
          /\ UNCHANGED <<c_exc, c_ret>>
       \/ /\ cpc' = "raised"
          /\ c_exc' = "transport"
          /\ c_ret' = RaisedResult
    /\ UNCHANGED <<c_call, c_tx, c_submits, c_processed, c_resp,
                   c_hist, txs, ledger_weights, ledger_writer>>
    /\ UNCHANGED <<qvars, svars, fvars, pvars, uvars>>

\* substrate.submit_extrinsic hands the transaction to the ledger.
DoSetWeightsSubmit ==
    /\ cpc = "submit"
    /\ c_submits' = c_submits + 1
    /\ txs' = Append(txs, [vec |-> c_call.vec, status |-> "pending", msg |-> NoneMsg])
    /\ c_tx' = Len(txs) + 1
    /\ cpc' = "sent"
    /\ UNCHANGED <<c_call, c_processed, c_resp, c_ret, c_exc, c_hist,
                   ledger_weights, ledger_writer>>
    /\ UNCHANGED <<qvars, svars, fvars, pvars, uvars>>

\* substrate.submit_extrinsic raises a transport fault: the transaction is not
\* handed over, and nothing in _do_set_weights catches the exception or calls
\* submit_extrinsic again.
DoSetWeightsSubmitRaises ==
    /\ cpc = "submit"
    /\ c_submits' = c_submits + 1
    /\ cpc' = "raised"
    /\ c_exc' = "transport"
    /\ c_ret' = RaisedResult
    /\ UNCHANGED <<c_call, c_tx, c_processed, c_resp, c_hist, txs,
                   ledger_weights, ledger_writer>>
    /\ UNCHANGED <<qvars, svars, fvars, pvars, uvars>>

\* submit_extrinsic returns its response: at once without a wait flag, and
\* with one only after the ledger has processed the transaction.
DoSetWeightsSubmitReturns ==
    /\ cpc = "sent"
    /\ SubmitWaits(c_call.wfi, c_call.wff) => txs[c_tx].status # "pending"
    /\ c_resp' = IF SubmitWaits(c_call.wfi, c_call.wff)
                 THEN [has_block |-> TRUE,
                       is_success |-> (txs[c_tx].status = "accepted"),
                       error_message |-> txs[c_tx].msg]
                 ELSE NoResp
    /\ cpc' = "responded"
    /\ UNCHANGED <<c_call, c_tx, c_submits, c_processed, c_ret, c_exc, c_hist,
                   txs, ledger_weights, ledger_writer>>
    /\ UNCHANGED <<qvars, svars, fvars, pvars, uvars>>

\* KeyboardInterrupt while the call is in progress.
DoSetWeightsInterrupted ==
    /\ cpc \in {"compose", "submit", "sent"}
    /\ cpc' = "raised"
    /\ c_exc' = "interrupt"
    /\ c_ret' = RaisedResult
    /\ UNCHANGED <<c_call, c_tx, c_submits, c_processed, c_resp, c_hist,
                   txs, ledger_weights, ledger_writer>>
    /\ UNCHANGED <<qvars, svars, fvars, pvars, uvars>>

\* if not wait_for_finalization and not wait_for_inclusion: return True, None
\* response.process_events(); return per response.is_success.
\* process_events on a response that names no block raises.
DoSetWeightsReturn ==
    /\ cpc = "responded"
    /\ IF FireAndForget(c_call.wfi, c_call.wff)
       THEN /\ c_ret' = FireAndForgetResult
            /\ cpc' = "done"
            /\ UNCHANGED <<c_processed, c_exc>>
       ELSE /\ c_processed' = TRUE
            /\ IF c_resp.has_block
               THEN /\ c_ret' = ResultOf(c_resp)
                    /\ cpc' = "done"
                    /\ UNCHANGED c_exc
               ELSE /\ cpc' = "raised"
                    /\ c_exc' = "ValueError"
                    /\ c_ret' = RaisedResult
    /\ UNCHANGED <<c_call, c_tx, c_submits, c_resp, c_hist, txs,
                   ledger_weights, ledger_writer>>
    /\ UNCHANGED <<qvars, svars, fvars, pvars, uvars>>

\* The caller has the call's outcome; _do_set_weights can be entered again.
DoSetWeightsFinish ==
    /\ cpc \in {"done", "raised"}
    /\ c_hist' = Append(c_hist, [vec |-> c_call.vec, wfi |-> c_call.wfi,
                                 wff |-> c_call.wff, tx |-> c_tx,
                                 submits |-> c_submits, ret |-> c_ret,
                                 exc |-> c_exc])
    /\ cpc' = "idle"
    /\ c_call' = NoCall
    /\ c_tx' = 0
    /\ c_submits' = 0
    /\ c_processed' = FALSE
    /\ c_resp' = NoResp
    /\ c_ret' = NoRet
    /\ c_exc' = "none"
    /\ UNCHANGED <<txs, ledger_weights, ledger_writer>>
    /\ UNCHANGED <<qvars, svars, fvars, pvars, uvars>>

\* The ledger processes a pending set_weights transaction: it accepts it, and
\* the validator's committed weight vector becomes the transaction's.
LedgerAccepts(i) ==
    /\ txs[i].status = "pending"
    /\ txs' = [txs EXCEPT ![i].status = "accepted"]
    /\ ledger_weights' = txs[i].vec
    /\ ledger_writer' = i
    /\ UNCHANGED <<cpc, c_call, c_tx, c_submits, c_processed, c_resp, c_ret,
                   c_exc, c_hist>>
    /\ UNCHANGED <<qvars, svars, fvars, pvars, uvars>>

\* The ledger rejects a pending transaction with an error: a failed extrinsic
\* writes nothing.
LedgerRejects(i, msg) ==
    /\ txs[i].status = "pending"
    /\ txs' = [txs EXCEPT ![i].status = "rejected", ![i].msg = msg]
    /\ UNCHANGED <<cpc, c_call, c_tx, c_submits, c_processed, c_resp, c_ret,
                   c_exc, c_hist, ledger_weights, ledger_writer>>
    /\ UNCHANGED <<qvars, svars, fvars, pvars, uvars>>

CNext ==
    \/ \E vec \in WeightVectors, wfi \in BOOLEAN, wff \in BOOLEAN :
          DoSetWeightsCall(vec, wfi, wff)
    \/ DoSetWeightsCompose
    \/ DoSetWeightsSubmit
    \/ DoSetWeightsSubmitRaises
    \/ DoSetWeightsSubmitReturns
    \/ DoSetWeightsInterrupted
    \/ DoSetWeightsReturn
    \/ DoSetWeightsFinish
    \/ \E i \in 1..Len(txs) : LedgerAccepts(i)
    \/ \E i \in 1..Len(txs), msg \in RejectMsgs : LedgerRejects(i, msg)

\* ======================================================================
\* Neuron.run and Neuron.run_epoch: the epoch scheduler
\* ======================================================================

\* The raw score a step gives a queried peer: masked loss minus full loss,
\* of either sign.
ScoreValues == {-1, 0, 2}

\* self.config.nucleus.topk: the peers a step queries, two so that a step's
\* scores can be of both signs.
NucleusTopk == 2

\* uids of a metagraph of n peers.
Uids(n) == 0..(n - 1)

\* torch.topk( routing_weights, real_topk ): the routing weights carry random
\* noise, so any real_topk peers may be the ones queried.
RealTopkOne(n) == Min(n, 1)
RealTopk(n) == Min(n, NucleusTopk)
QueriedSets(n) == { S \in SUBSET Uids(n) : Cardinality(S) = RealTopk(n) }

\* shapely_scores = torch.zeros( n ); shapely_scores[ uid ] = ... for the
\* queried uids only; the step returns -shapely_scores.
StepScores(n, S) == { v \in [Uids(n) -> ScoreValues] : \A u \in Uids(n) \ S : v[u] = 0 }

RECURSIVE SumTo(_, _)
SumTo(v, k) == IF k < 0 THEN 0 ELSE v[k] + SumTo(v, k - 1)

\* scores = scores / scores.sum(): the entry kept exactly, as the numerators
\* and their common denominator.
NormalizedBySize(v, n) == [num |-> v, den |-> n]
Normalized(v, n) == [num |-> v, den |-> SumTo(v, n - 1)]

\* One entry num / den of a normalized step, in floating point: a zero sum
\* gives nan (0/0) or an infinity, no exception.
EntryKind(num, den) ==
    IF den # 0 THEN "fin"
    ELSE IF num = 0 THEN "nan" ELSE IF num > 0 THEN "pinf" ELSE "ninf"

\* The product of the denominators of the history, without entry t (t = 0:
\* of all of them).
RECURSIVE ProdDen(_, _, _)
ProdDen(h, t, k) ==
    IF k = 0 THEN 1
    ELSE (IF k = t THEN 1 ELSE h[k].den) * ProdDen(h, t, k - 1)

Sign(x) == IF x < 0 THEN 0 - 1 ELSE 1
Abs(x) == IF x < 0 THEN 0 - x ELSE x

\* The sum over the history of uid u's entries, over the common denominator
\* Abs( ProdDen(h, 0, Len(h)) ).
RECURSIVE SumEntries(_, _, _)
SumEntries(h, u, k) ==
    IF k = 0 THEN 0
    ELSE h[k].num[u] * ProdDen(h, k, Len(h)) + SumEntries(h, u, k - 1)

\* The denominator every finite moving average of the history is written over.
AvgDen(h) == Len(h) * Abs(ProdDen(h, 0, Len(h)))

\* The latest entry alone, every earlier step weighing nothing.
MovingAvgSumLatest(h, u) ==
    [kind |-> EntryKind(h[Len(h)].num[u], h[Len(h)].den),
     val |-> IF h[Len(h)].den = 0 THEN 0
             ELSE Sign(ProdDen(h, 0, Len(h))) * h[Len(h)].num[u]
                    * ProdDen(h, Len(h), Len(h)) * Len(h)]

\* The mean of one uid's entries without dividing by the step count.
MovingAvgSum(h, u) ==
    LET K == { EntryKind(h[t].num[u], h[t].den) : t \in 1..Len(h) }
    IN  IF "nan" \in K \/ {"pinf", "ninf"} \subseteq K THEN [kind |-> "nan", val |-> 0]
        ELSE IF "pinf" \in K THEN [kind |-> "pinf", val |-> 0]
        ELSE IF "ninf" \in K THEN [kind |-> "ninf", val |-> 0]
        ELSE [kind |-> "fin",
              val |-> Sign(ProdDen(h, 0, Len(h))) * SumEntries(h, u, Len(h))]

\* moving_avg_scores = torch.stack( score_history ).mean(0): per uid the mean
\* of its entries, val / AvgDen(h) when finite.
MovingAvg(h, n) == [u \in Uids(n) |-> MovingAvgSum(h, u)]

\* The length of moving_avg_scores: that of the stacked entries.
HistoryPeers(h) == Cardinality(DOMAIN h[1].num)

\* The order of torch.topk: nan above every number.
Rank(x) == CASE x.kind = "nan" -> 3 [] x.kind = "pinf" -> 2
             [] x.kind = "fin" -> 1 [] x.kind = "ninf" -> 0
Greater(a, b) ==
    \/ Rank(a) > Rank(b)
    \/ Rank(a) = 1 /\ Rank(b) = 1 /\ a.val > b.val
Negative(x) == x.kind = "ninf" \/ (x.kind = "fin" /\ x.val < 0)

\* k = min( self.config.neuron.n_topk_peer_weights, self.metagraph.n.item() )
CommitKAllPeers(n) == n
CommitK(n) == Min(NTopkPeerWeights, n)

\* The peers top-K selection chooses among: negative scores are excluded first.
TopkKeepsNegatives(avg, n) == Uids(n)
TopkCandidates(avg, n) == { u \in Uids(n) : ~Negative(avg[u]) }

\* bittensor.unbiased_topk( values, k ): the uids of the (at most) k highest
\* candidates, highest first; equal scores in any order.
UnbiasedTopk(avg, n, k) ==
    LET C == TopkCandidates(avg, n)
        m == Min(k, Cardinality(C))
    IN  { s \in [1..m -> C] :
            /\ \A i, j \in 1..m : i # j => s[i] # s[j]
            /\ \A i, j \in 1..m : i < j => ~Greater(avg[s[j]], avg[s[i]])
            /\ \A u \in C : (\A i \in 1..m : s[i] # u) =>
                  \A i \in 1..m : ~Greater(avg[u], avg[s[i]]) }

\* No WeightVector handed over.
NoHanded == [uids |-> <<>>, weights |-> <<>>, den |-> 1]

\* uids = topk_uids, weights = topk_scores: what run_epoch passes to
\* self.subtensor.set_weights, the weights over the common denominator den.
HandedVectors(avg, den, n) ==
    { [uids |-> s, weights |-> [i \in DOMAIN s |-> avg[s[i]]], den |-> den] :
        s \in UnbiasedTopk(avg, Cardinality(DOMAIN avg), CommitK(n)) }

\* set_weights( self, wallet, netuid, uids, weights, version_key = ..., ... ):
\* the parameters without a default.
SetWeightsRequired == {"wallet", "netuid", "uids", "weights"}
\* self.subtensor.set_weights( uids = ..., weights = ..., wallet = ... )
SetWeightsSupplied == {"uids", "weights", "wallet"}
\* Python binds the call only when every required parameter is supplied.
CallBinds == SetWeightsRequired \subseteq SetWeightsSupplied

\* self.nucleus( next( self.dataset ), self.metagraph, self.dendrite ): a step
\* scores the peers of self.metagraph, the snapshot of the run's sync.
StepPeersLive == chain_n
StepPeers == metagraph_n

\* torch.stack( score_history ) takes entries of one length only.
Stackable(h, n) == \A t \in 1..Len(h) : DOMAIN h[t].num = Uids(n)

\* A local name run_epoch has not assigned yet.
Unbound == <<>>

\* A local name is bound once an assignment to it has run; reading it before
\* raises UnboundLocalError.
BoundAlways(m) == TRUE
Bound(m) == m # Unbound

\* score_history = []
FreshHistoryKeeps(old) == old
FreshHistory(old) == <<>>

\* self.run_epoch(); self.epoch += 1: the increment runs when run_epoch has
\* returned, and not when it raised.
EpochAfterRunCounts(e, raised) == e + 1
EpochAfterRun(e, raised) == IF raised THEN e ELSE e + 1

\* The first statement of run_epoch: self.metagraph.sync().save()
RunEpochFirstSkipsSync == "start_block"
RunEpochFirst == "setup"

\* if self.epoch % self.config.neuron.epochs_until_reset == 0
ResetDueNever(e) == FALSE
ResetDue(e) == e % EpochsUntilReset = 0

\* while self.subtensor.block < start_block + self.config.neuron.blocks_per_epoch
WhileContinuesInclusive(blk, sb) == blk <= sb + BlocksPerEpoch
WhileContinues(blk, sb) == blk < sb + BlocksPerEpoch

\* except KeyboardInterrupt: break
\* except Exception as e: ... if not self.config.neuron.restart_on_failure: break
OnExceptionAlwaysBreaks(exc) == "stopped"
OnExceptionRestartInverted(exc) ==
    IF exc = "KeyboardInterrupt" THEN "stopped"
    ELSE IF restart_on_failure THEN "stopped" ELSE "loop"
OnException(exc) ==
    IF exc = "KeyboardInterrupt" THEN "stopped"
    ELSE IF restart_on_failure THEN "loop" ELSE "stopped"

\* Neuron.__init__: global_step = 0, epoch = 0; the configuration, the wallet's
\* registration and the chain's registry are what the process finds.
SInitWith(restart, mock, reg, n) ==
    /\ pc = "enter"
    /\ restart_on_failure = restart
    /\ network_mock = mock
    /\ registered = reg
    /\ epoch = 0
    /\ global_step = 0
    /\ epoch_steps = 0
    /\ score_history = <<>>
    /\ start_block = 0
    /\ metagraph_n = 0
    /\ nucleus = "init"
    /\ optimizer = "none"
    /\ last_exc = "none"
    /\ block = 0
    /\ chain_n = n
    /\ run_synced = FALSE
    /\ run_committed = FALSE
    /\ commit_calls = [e \in 0..MaxEpoch |-> 0]
    /\ interrupted = FALSE
    /\ moving_avg_scores = Unbound
    /\ commit_vec = NoHanded

SInit ==
    \E restart \in BOOLEAN, mock \in BOOLEAN, reg \in BOOLEAN, n \in 0..MaxPeers :
        SInitWith(restart, mock, reg, n)

\* The scheduler not started, for the specifications of the chain interface.
SIdle == SInitWith(TRUE, FALSE, TRUE, 0)

\* with self: __enter__. An unregistered wallet on a real network ends the
\* process (sys.exit(0)); on the mock network the wallet is registered. The
\* chain queries of the checks (is_registered, register, get_uid) may raise,
\* and __enter__ runs outside run's try: the exception ends the process.
Enter ==
    /\ pc = "enter"
    /\ \/ IF ~network_mock /\ ~registered
          THEN /\ pc' = "exited"
               /\ last_exc' = "SystemExit"
               /\ UNCHANGED registered
          ELSE /\ pc' = "loop"
               /\ registered' = TRUE
               /\ UNCHANGED last_exc
       \/ /\ pc' = "exited"
          /\ last_exc' = "Exception"
          /\ UNCHANGED registered
    /\ UNCHANGED <<restart_on_failure, moving_avg_scores,
                   network_mock, epoch, global_step,
                   epoch_steps, score_history, start_block, metagraph_n,
                   nucleus, optimizer, block, chain_n, run_synced,
                   run_committed, commit_calls, interrupted, commit_vec>>
    /\ UNCHANGED <<qvars, cvars, fvars, pvars, uvars>>

\* while True: try: self.run_epoch()
RunLoop ==
    /\ pc = "loop"
    /\ epoch <= MaxEpoch
    /\ pc' = RunEpochFirst
    /\ run_synced' = FALSE
    /\ run_committed' = FALSE
    /\ commit_vec' = NoHanded
    /\ moving_avg_scores' = Unbound
    /\ last_exc' = "none"
    /\ UNCHANGED <<restart_on_failure,
                   network_mock, registered, epoch,
                   global_step, epoch_steps, score_history, start_block,
                   metagraph_n, nucleus, optimizer, block, chain_n,
                   commit_calls, interrupted>>
    /\ UNCHANGED <<qvars, cvars, fvars, pvars, uvars>>

\* === Setup Epoch ===: the metagraph is synced with the chain and the history
\* is emptied; every epochs_until_reset epochs the run goes on to reset the
\* nucleus, otherwise nucleus and optimizer stay as they are. The sync may raise.
RunEpochSetup ==
    /\ pc = "setup"
    /\ \/ /\ metagraph_n' = chain_n
          /\ run_synced' = TRUE
          /\ epoch_steps' = 0
          /\ score_history' = FreshHistory(score_history)
          /\ pc' = IF ResetDue(epoch) THEN "reset" ELSE "start_block"
          /\ UNCHANGED last_exc
       \/ /\ pc' = OnException("Exception")
          /\ last_exc' = "Exception"
          /\ UNCHANGED <<metagraph_n, run_synced, epoch_steps, score_history>>
    /\ UNCHANGED <<restart_on_failure, moving_avg_scores,
                   network_mock, registered, epoch,
                   global_step, start_block, nucleus, optimizer, block,
                   chain_n, run_committed, commit_calls, interrupted,
                   commit_vec>>
    /\ UNCHANGED <<qvars, cvars, fvars, pvars, uvars>>

\* self.nucleus.reset_weights(); self.optimizer = torch.optim.SGD( ... ):
\* "fresh" is the nucleus reset_weights has returned from. torch may raise.
RunEpochReset ==
    /\ pc = "reset"
    /\ \/ /\ nucleus' = "fresh"
          /\ optimizer' = "fresh"
          /\ pc' = "start_block"
          /\ UNCHANGED last_exc
       \/ /\ pc' = OnException("Exception")
          /\ last_exc' = "Exception"
          /\ UNCHANGED <<nucleus, optimizer>>
    /\ UNCHANGED <<restart_on_failure, moving_avg_scores,
                   network_mock, registered, epoch,
                   global_step, epoch_steps, score_history, start_block,
                   metagraph_n, block, chain_n, run_synced, run_committed,
                   commit_calls, interrupted, commit_vec>>
    /\ UNCHANGED <<qvars, cvars, fvars, pvars, uvars>>

\* KeyboardInterrupt delivered while reset_weights runs init_xavier's try
\* body: "except: pass" catches it, and the epoch run goes on.
InterruptSwallowed ==
    /\ pc = "reset"
    /\ interrupted' = TRUE
    /\ UNCHANGED <<pc, restart_on_failure, moving_avg_scores,
                   network_mock, registered, epoch,
                   global_step, epoch_steps, score_history, start_block,
                   metagraph_n, nucleus, optimizer, last_exc, block, chain_n,
                   run_synced, run_committed, commit_calls, commit_vec>>
    /\ UNCHANGED <<qvars, cvars, fvars, pvars, uvars>>

\* start_block = self.subtensor.block; the chain query may raise.
RunEpochStartBlock ==
    /\ pc = "start_block"
    /\ \/ /\ start_block' = block
          /\ pc' = "while"
          /\ UNCHANGED last_exc
       \/ /\ pc' = OnException("Exception")
          /\ last_exc' = "Exception"
          /\ UNCHANGED start_block
    /\ UNCHANGED <<restart_on_failure, moving_avg_scores,
                   network_mock, registered, epoch,
                   global_step, epoch_steps, score_history, metagraph_n,
                   nucleus, optimizer, block, chain_n, run_synced,
                   run_committed, commit_calls, interrupted, commit_vec>>
    /\ UNCHANGED <<qvars, cvars, fvars, pvars, uvars>>

\* The test of the stepping loop; the chain query may raise.
RunEpochWhile ==
    /\ pc = "while"
    /\ \/ /\ pc' = IF WhileContinues(block, start_block) THEN "step" ELSE "set_weights"
          /\ UNCHANGED last_exc
       \/ /\ pc' = OnException("Exception")
          /\ last_exc' = "Exception"
    /\ UNCHANGED <<restart_on_failure, moving_avg_scores,
                   network_mock, registered, epoch,
                   global_step, epoch_steps, score_history, start_block,
                   metagraph_n, nucleus, optimizer, block, chain_n, run_synced,
                   run_committed, commit_calls, interrupted, commit_vec>>
    /\ UNCHANGED <<qvars, cvars, fvars, pvars, uvars>>

\* One step: the nucleus queries real_topk peers and scores them, the
\* optimizer steps, the scores are divided by their sum and appended to the
\* history. torch.cat of no gate output (an empty metagraph) raises, and so
\* may the dataset, the dendrite, the model or torch.stack.
RunEpochStep ==
    /\ pc = "step"
    /\ global_step < MaxSteps
    /\ \/ /\ StepPeers > 0
          /\ Stackable(score_history, StepPeers)
          /\ \E S \in QueriedSets(StepPeers) :
             \E v \in StepScores(StepPeers, S) :
                LET h == Append(score_history, Normalized(v, StepPeers))
                IN  /\ score_history' = h
                    /\ moving_avg_scores' = MovingAvg(h, HistoryPeers(h))
          /\ nucleus' = "trained"
          /\ optimizer' = "stepped"
          /\ epoch_steps' = epoch_steps + 1
          /\ global_step' = global_step + 1
          /\ pc' = "while"
          /\ UNCHANGED last_exc
       \/ /\ pc' = OnException("Exception")
          /\ last_exc' = "Exception"
          /\ UNCHANGED <<score_history, moving_avg_scores, nucleus, optimizer,
                         epoch_steps, global_step>>
    /\ UNCHANGED <<restart_on_failure,
                   network_mock, registered, epoch,
                   start_block, metagraph_n, block, chain_n, run_synced,
                   run_committed, commit_calls, interrupted, commit_vec>>
    /\ UNCHANGED <<qvars, cvars, fvars, pvars, uvars>>

\* === Set weights ===: unbiased_topk( moving_avg_scores, ... ) reads a name no
\* step has bound when the loop body never ran (UnboundLocalError). Otherwise
\* the top-K uids and scores are handed to self.subtensor.set_weights; the
\* call leaves out netuid, which set_weights requires, so Python raises
\* TypeError at the call. Were it to bind, run_epoch would return and run
\* would execute self.epoch += 1.
RunEpochSetWeights ==
    /\ pc = "set_weights"
    /\ IF ~Bound(moving_avg_scores)
       THEN /\ pc' = OnException("Exception")
            /\ last_exc' = "UnboundLocalError"
            /\ epoch' = EpochAfterRun(epoch, TRUE)
            /\ UNCHANGED <<run_committed, commit_calls, commit_vec>>
       ELSE /\ \E wv \in HandedVectors(moving_avg_scores, AvgDen(score_history),
                                         metagraph_n) :
                  commit_vec' = wv
            /\ run_committed' = TRUE
            /\ commit_calls' = [commit_calls EXCEPT ![epoch] = @ + 1]
            /\ IF CallBinds
               THEN /\ pc' = "loop"
                    /\ epoch' = EpochAfterRun(epoch, FALSE)
                    /\ UNCHANGED last_exc
               ELSE /\ pc' = OnException("Exception")
                    /\ last_exc' = "TypeError"
                    /\ epoch' = EpochAfterRun(epoch, TRUE)
    /\ UNCHANGED <<restart_on_failure, moving_avg_scores,
                   network_mock, registered, global_step,
                   epoch_steps, score_history, start_block, metagraph_n,
                   nucleus, optimizer, block, chain_n, run_synced, interrupted>>
    /\ UNCHANGED <<qvars, cvars, fvars, pvars, uvars>>

\* KeyboardInterrupt that nothing below run catches, at any point of run:
\* except KeyboardInterrupt: break.
Interrupt ==
    /\ pc \in {"enter", "loop", "setup", "reset", "start_block", "while", "step",
               "set_weights"}
    /\ pc' = OnException("KeyboardInterrupt")
    /\ last_exc' = "KeyboardInterrupt"
    /\ interrupted' = TRUE
    /\ UNCHANGED <<restart_on_failure, moving_avg_scores,
                   network_mock, registered, epoch,
                   global_step, epoch_steps, score_history, start_block,
                   metagraph_n, nucleus, optimizer, block, chain_n, run_synced,
                   run_committed, commit_calls, commit_vec>>
    /\ UNCHANGED <<qvars, cvars, fvars, pvars, uvars>>

\* The chain produces a block.
BlockAdvance ==
    /\ block < MaxBlock
    /\ block' = block + 1
    /\ UNCHANGED <<pc, restart_on_failure, moving_avg_scores,
                   network_mock, registered, epoch,
                   global_step, epoch_steps, score_history, start_block,
                   metagraph_n, nucleus, optimizer, last_exc, chain_n,
                   run_synced, run_committed, commit_calls, interrupted,
                   commit_vec>>
    /\ UNCHANGED <<qvars, cvars, fvars, pvars, uvars>>

\* A peer registers on the chain and takes the next uid.
RegistryChange ==
    /\ chain_n < MaxPeers
    /\ chain_n' = chain_n + 1
    /\ UNCHANGED <<pc, restart_on_failure, moving_avg_scores,
                   network_mock, registered, epoch,
                   global_step, epoch_steps, score_history, start_block,
                   metagraph_n, nucleus, optimizer, last_exc, block,
                   run_synced, run_committed, commit_calls, interrupted,
                   commit_vec>>
    /\ UNCHANGED <<qvars, cvars, fvars, pvars, uvars>>

Next ==
    \/ Enter
    \/ RunLoop
    \/ RunEpochSetup
    \/ RunEpochReset
    \/ InterruptSwallowed
    \/ RunEpochStartBlock
    \/ RunEpochWhile
    \/ RunEpochStep
    \/ RunEpochSetWeights
    \/ Interrupt
    \/ BlockAdvance
    \/ RegistryChange

\* ======================================================================
\* One step: Nucleus.forward and the score update of run_epoch
\* ======================================================================

\* What a gate gives a peer (batchwise_routing_weights) and what the noise
\* adds to it.
GateValues == {0, 1}
NoiseValues == {0, 2}
\* What get_target_loss gives an aggregate of responses.
LossValues == 0..MaxLoss
\* The return codes of dendrite.forward_text.
ReturnCodes == {"Success", "Timeout"}

\* The elements of a sequence.
Range(s) == { s[i] : i \in DOMAIN s }

\* torch.normal( 0, torch.std( batchwise_routing_weights ), ... ): no spread
\* among the gate outputs, no noise.
NoiseFor(n, gate) ==
    IF \A u, w \in Uids(n) : gate[u] = gate[w]
    THEN { [u \in Uids(n) |-> 0] }
    ELSE [Uids(n) -> NoiseValues]

\* routing_weights[ metagraph.uids[i] ] = batchwise_routing_weights[i] + noisy_routing_weights[i]
RoutingWeightsNoNoise(n, gate, noise) == [u \in Uids(n) |-> gate[u]]
RoutingWeights(n, gate, noise) == [u \in Uids(n) |-> gate[u] + noise[u]]

\* torch.topk( routing_weights, real_topk, dim=0 ): the indices of k highest
\* weights, highest first; which of several equal weights it returns is not
\* specified.
TopkResults(w, n, k) ==
    { s \in [1..k -> Uids(n)] :
        /\ \A i, j \in 1..k : i # j => s[i] # s[j]
        /\ \A i, j \in 1..k : i < j => w[s[i]] >= w[s[j]]
        /\ \A u \in Uids(n) \ Range(s) : \A i \in 1..k : w[u] <= w[s[i]] }

\* joining_context( return_ops, joining_weights, query_responses ): the
\* aggregate of the successful responses, here the set of their peers.
JoinedAll(ops, uids) == Range(uids)
Joined(ops, uids) == { uids[i] : i \in { j \in DOMAIN uids : ops[j] = "Success" } }

\* partial_contexts( return_ops, routing_uids, joining_weights, query_responses ):
\* per queried uid the aggregate without that peer's response.
PartialContexts(ops, uids) == [p \in Range(uids) |-> Joined(ops, uids) \ {p}]

\* shapely_scores = torch.zeros( (metagraph.n.item()) )
ShapelyInitOnes(n) == [u \in Uids(n) |-> 1]
ShapelyInit(n) == [u \in Uids(n) |-> 0]

\* shapely_score = unmasked_loss - masked_loss
ShapelyScoreSwapped(unmasked_loss, masked_loss) == masked_loss - unmasked_loss
ShapelyScore(unmasked_loss, masked_loss) == unmasked_loss - masked_loss

\* return target_loss, -shapely_scores
ForwardScores(n, shapely_scores) == [u \in Uids(n) |-> 0 - shapely_scores[u]]

NoEntry == [num |-> <<>>, den |-> 0]

FInit ==
    /\ fpc = "idle"
    /\ f_n = 0
    /\ f_gate = <<>>
    /\ f_noise = <<>>
    /\ f_routing_uids = <<>>
    /\ f_return_ops = <<>>
    /\ f_loss = <<>>
    /\ f_evaluated = {}
    /\ f_scores = <<>>
    /\ f_entry = NoEntry
    /\ f_exc = "none"

\* self.nucleus( inputs, metagraph, dendrite ) up to the gates: routing_weights
\* = torch.cat( [ self.gates[ uid ]( ... ) for uid in metagraph.uids.tolist() ] ).
\* torch.cat of an empty list raises.
ForwardCall(n, gate) ==
    /\ fpc = "idle"
    /\ f_n' = n
    /\ IF n = 0
       THEN /\ fpc' = "raised"
            /\ f_exc' = "RuntimeError"
            /\ UNCHANGED f_gate
       ELSE /\ fpc' = "gated"
            /\ f_gate' = gate
            /\ UNCHANGED f_exc
    /\ UNCHANGED <<f_noise, f_routing_uids, f_return_ops, f_loss, f_evaluated,
                   f_scores, f_entry>>
    /\ UNCHANGED <<qvars, cvars, svars, pvars, uvars>>

\* noisy_routing_weights = torch.normal( 0, std, ... )
ForwardNoise(noise) ==
    /\ fpc = "gated"
    /\ noise \in NoiseFor(f_n, f_gate)
    /\ f_noise' = noise
    /\ fpc' = "noised"
    /\ UNCHANGED <<f_n, f_gate, f_routing_uids, f_return_ops, f_loss,
                   f_evaluated, f_scores, f_entry, f_exc>>
    /\ UNCHANGED <<qvars, cvars, svars, pvars, uvars>>

\* routing_weights, routing_uids = torch.topk( routing_weights, real_topk, dim=0 )
ForwardTopk ==
    /\ fpc = "noised"
    /\ \E s \in TopkResults(RoutingWeights(f_n, f_gate, f_noise), f_n, RealTopk(f_n)) :
          f_routing_uids' = s
    /\ fpc' = "routed"
    /\ UNCHANGED <<f_n, f_gate, f_noise, f_return_ops, f_loss, f_evaluated,
                   f_scores, f_entry, f_exc>>
    /\ UNCHANGED <<qvars, cvars, svars, pvars, uvars>>

\* query_responses, return_ops, times = dendrite.forward_text( ... ): one
\* return code per queried endpoint. The gate outputs and the noise are not
\* read from here on.
ForwardQuery(ops) ==
    /\ fpc = "routed"
    /\ f_return_ops' = ops
    /\ f_gate' = <<>>
    /\ f_noise' = <<>>
    /\ fpc' = "queried"
    /\ UNCHANGED <<f_n, f_routing_uids, f_loss, f_evaluated, f_scores, f_entry,
                   f_exc>>
    /\ UNCHANGED <<qvars, cvars, svars, pvars, uvars>>

\* unmasked_loss = get_target_loss( responses_hidden, inputs ); for uid in
\* masked_contexts: shapely_scores[ uid ] = unmasked_loss - masked_loss;
\* return target_loss, -shapely_scores. loss is what get_target_loss gives
\* each aggregate.
ForwardScore(loss) ==
    /\ fpc = "queried"
    /\ LET full == Joined(f_return_ops, f_routing_uids)
           masked_contexts == PartialContexts(f_return_ops, f_routing_uids)
           unmasked_loss == loss[full]
           shapely_scores ==
               [u \in Uids(f_n) |->
                   IF u \in DOMAIN masked_contexts
                   THEN ShapelyScore(unmasked_loss, loss[masked_contexts[u]])
                   ELSE ShapelyInit(f_n)[u]]
       IN  /\ f_evaluated' = {full} \cup { masked_contexts[u] : u \in DOMAIN masked_contexts }
           /\ f_scores' = ForwardScores(f_n, shapely_scores)
    /\ f_loss' = loss
    /\ fpc' = "scored"
    /\ UNCHANGED <<f_n, f_gate, f_noise, f_routing_uids, f_return_ops, f_entry,
                   f_exc>>
    /\ UNCHANGED <<qvars, cvars, svars, pvars, uvars>>

\* scores = scores / scores.sum(); score_history.append( scores )
StepAppend ==
    /\ fpc = "scored"
    /\ f_entry' = Normalized(f_scores, f_n)
    /\ fpc' = "appended"
    /\ UNCHANGED <<f_n, f_gate, f_noise, f_routing_uids, f_return_ops, f_loss,
                   f_evaluated, f_scores, f_exc>>
    /\ UNCHANGED <<qvars, cvars, svars, pvars, uvars>>

FNext ==
    \/ \E n \in 0..StepMaxPeers : \E gate \in [Uids(n) -> GateValues] :
          ForwardCall(n, gate)
    \/ \E noise \in [Uids(f_n) -> NoiseValues] : ForwardNoise(noise)
    \/ ForwardTopk
    \/ \E ops \in [DOMAIN f_routing_uids -> ReturnCodes] : ForwardQuery(ops)
    \/ \E loss \in [SUBSET Range(f_routing_uids) -> LossValues] : ForwardScore(loss)
    \/ StepAppend

\* ======================================================================
\* Two epoch runs given the same step results
\* ======================================================================

\* The two runs compared: the first run of a process, and a run that follows
\* another one.
Runs == {1, 2}

\* What an earlier epoch run may have left behind: nothing, or a history.
PriorHistories(n) ==
    {<<>>} \cup { <<Normalized(v, n)>> :
                    v \in UNION { StepScores(n, S) : S \in QueriedSets(n) } }

PInit ==
    /\ p_pc = "idle"
    /\ p_n = 0
    /\ p_prior = [r \in Runs |-> <<>>]
    /\ p_steps = 0
    /\ p_history = [r \in Runs |-> <<>>]
    /\ p_avg = [r \in Runs |-> Unbound]

\* run_epoch is called twice, over metagraphs of the same n peers; before
\* the second call an earlier run has left old behind.
PairCall(n, old) ==
    /\ p_pc = "idle"
    /\ p_n' = n
    /\ p_prior' = [r \in Runs |-> IF r = 1 THEN <<>> ELSE old]
    /\ p_history' = [r \in Runs |-> IF r = 1 THEN <<>> ELSE old]
    /\ p_pc' = "setup"
    /\ UNCHANGED <<p_steps, p_avg>>
    /\ UNCHANGED <<qvars, cvars, svars, fvars, uvars>>

\* === Setup Epoch ===: epoch_steps = 0; score_history = [], in both runs.
PairSetup ==
    /\ p_pc = "setup"
    /\ p_history' = [r \in Runs |-> FreshHistory(p_history[r])]
    /\ p_avg' = [r \in Runs |-> Unbound]
    /\ p_steps' = 0
    /\ p_pc' = "stepping"
    /\ UNCHANGED <<p_n, p_prior>>
    /\ UNCHANGED <<qvars, cvars, svars, fvars, uvars>>

\* One step in both runs, the nucleus returning the same scores v in both:
\* scores = scores / scores.sum(); score_history.append( scores );
\* moving_avg_scores = torch.stack( score_history ).mean(0)
PairStep(v) ==
    /\ p_pc = "stepping"
    /\ p_steps < MaxSteps
    /\ p_history' = [r \in Runs |-> Append(p_history[r], Normalized(v, p_n))]
    /\ p_avg' = [r \in Runs |->
                    LET h == Append(p_history[r], Normalized(v, p_n))
                    IN  MovingAvg(h, HistoryPeers(h))]
    /\ p_steps' = p_steps + 1
    /\ UNCHANGED <<p_pc, p_n, p_prior>>
    /\ UNCHANGED <<qvars, cvars, svars, fvars, uvars>>

PNext ==
    \/ \E n \in 1..MaxPeers : \E old \in PriorHistories(n) : PairCall(n, old)
    \/ PairSetup
    \/ \E S \in QueriedSets(p_n) : \E v \in StepScores(p_n, S) : PairStep(v)

\* ======================================================================
\* Chain calls of Subtensor that return what the chain answered
\* ======================================================================

\* Keys of the connection-requirement records of a subnet: 0..MaxRecords.
ReqKeys == 0..MaxRecords

\* result.records of query_map_subtensor( 'NetworkConnect', block, [netuid] ):
\* one (key, value) tuple per key the storage map holds, here the mapping the
\* tuples list.
RecordSets == UNION { [K -> Values] : K \in SUBSET ReqKeys }

\* str( tuple[0].value )
Str(k) == <<"str", k>>

\* What a method returns: None, a dict, a tuple, a bare bool, a NeuronInfo.
RetNone == [kind |-> "None", val |-> <<>>]
RetDict(m) == [kind |-> "dict", val |-> m]
RetTuple(t) == [kind |-> "tuple", val |-> t]
RetBool(b) == [kind |-> "bool", val |-> <<b>>]
RetNeuron(x) == [kind |-> "NeuronInfo", val |-> x]

\* The requirements dict the loop over result.records builds.
Requirements(records) ==
    [s \in { Str(k) : k \in DOMAIN records } |-> records[s[2]]]

\* get_subnet_connection_requirements: with records the dict is built and the
\* method ends without a return statement, which returns None; without
\* records it returns {}.
GetSubnetConnectionRequirements(records) ==
    IF DOMAIN records # {}
    THEN RetNone
    ELSE RetDict(<<>>)

\* _do_burned_register after submit_extrinsic: return True with both wait
\* flags unset; else process_events() and (False, error_message) or
\* (True, None).
DoBurnedRegister(wfi, wff, resp) ==
    IF ~wff /\ ~wfi
    THEN RetBool(TRUE)
    ELSE IF ~resp.is_success
         THEN RetTuple(<<FALSE, resp.error_message>>)
         ELSE RetTuple(<<TRUE, NoneMsg>>)

\* The responses of the ledger to a submitted extrinsic.
Responses ==
    {[has_block |-> TRUE, is_success |-> TRUE, error_message |-> NoneMsg]} \cup
    { [has_block |-> TRUE, is_success |-> FALSE, error_message |-> m] : m \in RejectMsgs }

\* NeuronInfo._null_neuron(): a NeuronInfo with is_null = True.
NullNeuron == [is_null |-> TRUE, uid |-> 0, netuid |-> 0]
\* NeuronInfo.from_vec_u8( result )
FromVecU8(result) == [is_null |-> FALSE, uid |-> result[1], netuid |-> result[2]]

\* json_body['result'] of neuronInfo_getNeuron: None, [], or the encoded neuron.
EmptyResults == {"None", "[]"}
RpcResults(netuid, uid) == { [empty |-> e, vec |-> <<>>] : e \in EmptyResults } \cup
                           { [empty |-> "no", vec |-> <<uid, netuid>>] }

\* if result in (None, []): return NeuronInfo._null_neuron()
\* return NeuronInfo.from_vec_u8( result )
NeuronOf(result) ==
    IF result.empty \in EmptyResults
    THEN RetNeuron(NullNeuron)
    ELSE RetNeuron(FromVecU8(result.vec))

NoInput == [netuid |-> NoneV]

UInit ==
    /\ u_pc = "idle"
    /\ u_fn = "none"
    /\ u_in = NoInput
    /\ u_ret = RetNone
    /\ u_queries = 0

\* get_subnet_connection_requirements( netuid ): the retry-wrapped query
\* answers with records, or raises once its retries are spent.
CallGetSubnetConnectionRequirements(netuid, records, raises) ==
    /\ u_pc = "idle"
    /\ u_fn' = "get_subnet_connection_requirements"
    /\ u_in' = [netuid |-> netuid, records |-> records]
    /\ u_queries' = 1
    /\ IF raises
       THEN u_pc' = "raised" /\ UNCHANGED u_ret
       ELSE u_pc' = "returned" /\ u_ret' = GetSubnetConnectionRequirements(records)
    /\ UNCHANGED <<qvars, cvars, svars, fvars, pvars>>

\* _do_burned_register( netuid, wallet, wait_for_inclusion,
\* wait_for_finalization ): submit_extrinsic answers with the response, or
\* raises.
CallDoBurnedRegister(netuid, wfi, wff, resp, raises) ==
    /\ u_pc = "idle"
    /\ u_fn' = "_do_burned_register"
    /\ u_in' = [netuid |-> netuid, wfi |-> wfi, wff |-> wff, resp |-> resp]
    /\ u_queries' = 1
    /\ IF raises
       THEN u_pc' = "raised" /\ UNCHANGED u_ret
       ELSE u_pc' = "returned" /\ u_ret' = DoBurnedRegister(wfi, wff, resp)
    /\ UNCHANGED <<qvars, cvars, svars, fvars, pvars>>

\* neuron_for_uid( uid, netuid ): if uid == None: return
\* NeuronInfo._null_neuron(), before any chain call; else the retry-wrapped
\* rpc_request answers with result, or raises once its retries are spent.
CallNeuronForUid(uid, netuid, result, raises) ==
    /\ u_pc = "idle"
    /\ u_fn' = "neuron_for_uid"
    /\ IF uid = NoneV
       THEN /\ u_in' = [netuid |-> netuid, uid |-> uid, result |-> [empty |-> "None", vec |-> <<>>]]
            /\ u_queries' = 0
            /\ u_pc' = "returned"
            /\ u_ret' = RetNeuron(NullNeuron)
       ELSE /\ u_in' = [netuid |-> netuid, uid |-> uid, result |-> result]
            /\ u_queries' = 1
            /\ IF raises
               THEN u_pc' = "raised" /\ UNCHANGED u_ret
               ELSE u_pc' = "returned" /\ u_ret' = NeuronOf(result)
    /\ UNCHANGED <<qvars, cvars, svars, fvars, pvars>>

UNext ==
    \/ \E netuid \in Values, records \in RecordSets, raises \in BOOLEAN :
          CallGetSubnetConnectionRequirements(netuid, records, raises)
    \/ \E netuid \in Values, wfi \in BOOLEAN, wff \in BOOLEAN, resp \in Responses,
          raises \in BOOLEAN :
          CallDoBurnedRegister(netuid, wfi, wff, resp, raises)
    \/ \E uid \in {NoneV} \cup 0..MaxPeers, netuid \in Values, raises \in BOOLEAN :
          \E result \in RpcResults(netuid, uid) :
             CallNeuronForUid(uid, netuid, result, raises)

\* ======================================================================
\* Specifications
\* ======================================================================

Init == QInit /\ CInit /\ SInit /\ FInit /\ PInit /\ UInit

\* Neuron.run, the epoch scheduler.
Spec == Init /\ [][Next]_vars

InitChain == QInit /\ CInit /\ SIdle /\ FInit /\ PInit /\ UInit

\* Subtensor._do_set_weights and the ledger.
SpecCommit == InitChain /\ [][CNext]_vars

\* The retry-wrapped chain queries.
SpecQuery == InitChain /\ [][QNext]_vars

\* One step of an epoch run alone.
SpecStep == InitChain /\ [][FNext]_vars

\* Two epoch runs side by side.
SpecPair == InitChain /\ [][PNext]_vars

\* get_subnet_connection_requirements, _do_burned_register, neuron_for_uid.
SpecCalls == InitChain /\ [][UNext]_vars

\* ======================================================================
\* Properties
\* ======================================================================

\* C1: in every epoch run the registry sync completes before the first step
\* and every step precedes the weight commit: a step is started or executed
\* only in a run whose sync has completed and which has not yet invoked the
\* commit, and the commit is reached or invoked only in a run whose sync has
\* completed.
C1_SyncStepCommitOrder ==
    [][ /\ (pc' \in {"step", "set_weights"} => run_synced')
        /\ (pc' = "step" => ~run_committed')
        /\ (global_step' # global_step => run_synced /\ ~run_committed)
        /\ (commit_calls' # commit_calls => run_synced /\ run_synced') ]_vars

\* An epoch run that synced, stepped and then invoked the commit.
C1_Witness == run_synced /\ run_committed /\ epoch_steps > 0

\* C2: for every epoch index the scheduler invokes the weight commit at most
\* once, restarted runs included.
C2_CommitAtMostOncePerEpoch == \A e \in 0..MaxEpoch : commit_calls[e] <= 1

AllTransport(t) == \A i \in 1..Len(t) : t[i][1] = "transport"

\* C3: a retry-wrapped chain query stops at the first attempt that succeeds
\* and returns that attempt's value; when every attempt fails with a transport
\* fault it makes exactly 3 attempts, sleeping 2 and then 4 between them, and
\* then surfaces the fault; the sleeps never decrease and never exceed 4.
C3_RetryBound ==
    /\ Len(q_trace) <= 3
    /\ \A i \in 1..Len(q_trace) :
          q_trace[i][1] = "ok" =>
              (i = Len(q_trace) /\ qpc = "returned" /\ q_ret = q_trace[i][2])
    /\ qpc = "returned" => q_trace[Len(q_trace)][1] = "ok"
    /\ (qpc = "raised" /\ AllTransport(q_trace)) =>
          (Len(q_trace) = 3 /\ q_sleeps = <<2, 4>> /\ q_exc = "transport")
    /\ (qpc = "attempt" /\ AllTransport(q_trace)) =>
          (Len(q_trace) < 3 /\ Len(q_sleeps) = Len(q_trace))
    /\ \A i \in 1..Len(q_sleeps) :
          /\ q_sleeps[i] <= 4
          /\ i > 1 => q_sleeps[i - 1] <= q_sleeps[i]

\* Three transport faults in a row, surfaced.
C3_Witness == qpc = "raised" /\ Len(q_trace) = 3 /\ AllTransport(q_trace)

\* C4: a transport fault raised by the submission of the set-weights
\* transaction is surfaced to the caller of commit only after 3 submission
\* attempts.
C4_SubmitTransportRetried ==
    (cpc = "raised" /\ c_exc = "transport" /\ c_submits > 0) => c_submits = 3

\* C5: a commit with a wait flag whose transaction the ledger rejects returns
\* (False, the ledger's message), having submitted the transaction once.
C5_RejectionNotRetried ==
    (cpc = "done" /\ (c_call.wfi \/ c_call.wff) /\ txs[c_tx].status = "rejected") =>
        /\ c_ret = <<FALSE, txs[c_tx].msg>>
        /\ c_ret[2] \in RejectMsgs
        /\ c_submits = 1

\* wait_for_inclusion = true, wait_for_finalization = false, the ledger rejects
\* with InsufficientStake.
C5_Witness ==
    /\ cpc = "done" /\ c_call.wfi /\ ~c_call.wff
    /\ txs[c_tx].status = "rejected" /\ txs[c_tx].msg = "InsufficientStake"

\* C6: an application-level error raised inside a retry-wrapped chain query
\* is surfaced on its first occurrence: the attempt that raises it is the last.
C6_AppErrorNotRetried ==
    \A i \in 1..Len(q_trace) :
        q_trace[i][1] = "app" => (i = Len(q_trace) /\ qpc = "raised" /\ q_exc = "app")

\* C7: a commit with both wait flags false whose submission call returned has
\* returned (True, None) without processing the ledger's events, whatever the
\* ledger has done or does with the transaction.
C7_FireAndForget ==
    (/\ cpc \in {"done", "raised"}
     /\ ~c_call.wfi /\ ~c_call.wff
     /\ c_exc \notin {"transport", "interrupt"}) =>
        /\ cpc = "done"
        /\ c_ret = <<TRUE, NoneMsg>>
        /\ ~c_processed
        /\ txs[c_tx].status \in {"pending", "accepted", "rejected"}

\* A fire-and-forget commit that reported success, its transaction rejected.
C7_Witness ==
    /\ cpc = "done" /\ ~c_call.wfi /\ ~c_call.wff
    /\ c_ret = <<TRUE, NoneMsg>> /\ txs[c_tx].status = "rejected"

\* C8: a commit with a wait flag returns only after the ledger has processed
\* the transaction; its success value is the ledger's outcome, and it carries
\* an error message, the ledger's, exactly when the outcome is failure.
C8_WaitedCommitReportsLedger ==
    (cpc = "done" /\ (c_call.wfi \/ c_call.wff)) =>
        /\ txs[c_tx].status # "pending"
        /\ c_processed
        /\ c_ret[1] = (txs[c_tx].status = "accepted")
        /\ (c_ret[2] # NoneMsg) <=> ~c_ret[1]
        /\ ~c_ret[1] => c_ret[2] = txs[c_tx].msg

\* A commit that waited for finalization and was accepted.
C8_Witness ==
    /\ cpc = "done" /\ c_call.wff
    /\ txs[c_tx].status = "accepted" /\ c_ret = <<TRUE, NoneMsg>>

FireAndForgetCall(h) == ~h.wfi /\ ~h.wff
NoFault(h) == h.exc \notin {"transport", "interrupt"}

Failed(ret, exc) == (Len(ret) > 0 /\ ret[1] = FALSE) \/ exc = "transport"

C14_NoSuccessBeforeSubmitReturned ==
    /\ [][(c_ret' # c_ret /\ c_ret' # NoRet) =>
            (cpc = "responded" /\ c_exc = "none" /\ c_exc' = "none")]_vars
    /\ [](c_exc # "none" => c_ret = NoRet)
    /\ [](\A i \in 1..Len(c_hist) : c_hist[i].exc # "none" => c_hist[i].ret = NoRet)

\* A commit interrupted after the transaction was handed over, while waiting
\* for the ledger: it is finished with an exception and no result.
C14_Witness ==
    /\ Len(c_hist) > 0
    /\ c_hist[1].exc = "interrupt" /\ c_hist[1].tx # 0 /\ c_hist[1].ret = NoRet
    /\ txs[c_hist[1].tx].status = "accepted"

\* The exceptions an epoch run ends with, KeyboardInterrupt aside.
RunExceptions == {"Exception", "TypeError", "UnboundLocalError"}
\* The points of an epoch run.
RunPoints == {"setup", "reset", "start_block", "while", "step", "set_weights"}
\* The scheduler has ended.
Terminal == pc \in {"stopped", "exited"}

\* C11: with restart_on_failure set, an exception raised at any point of an
\* epoch run (sync, reset, step, commit) leaves the scheduler in its loop,
\* where the next epoch run can start, and the only step that keeps that run
\* from starting is an interrupt.
C11_ExceptionRestartsEpoch ==
    /\ [][(restart_on_failure /\ pc \in RunPoints /\ last_exc' \in RunExceptions)
            => pc' = "loop"]_vars
    /\ []((restart_on_failure /\ pc = "loop" /\ last_exc \in RunExceptions)
            => ENABLED RunLoop)
    /\ [][(restart_on_failure /\ pc = "loop" /\ last_exc \in RunExceptions /\ pc' # pc)
            => (pc' = "setup" \/ last_exc' = "KeyboardInterrupt")]_vars

\* An epoch run started after the commit of an earlier run raised.
C11_Witness == restart_on_failure /\ pc = "setup" /\ commit_calls[0] > 0

\* C12 as stated: the scheduler has ended only by an interrupt or by an
\* exception with restart_on_failure unset.
C12_StopsOnlyByInterruptOrNoRestart ==
    Terminal => \/ last_exc = "KeyboardInterrupt"
                \/ ~restart_on_failure /\ last_exc \in RunExceptions

\* C12: the scheduler ends only by an interrupt, by an exception of an epoch
\* run with restart_on_failure unset, or in __enter__ before the first epoch
\* run (sys.exit for an unregistered wallet, or an exception of the startup
\* checks); once ended it makes no further sync, step or commit.
C12_StopPaths ==
    /\ [](Terminal =>
            \/ last_exc = "KeyboardInterrupt"
            \/ pc = "stopped" /\ ~restart_on_failure /\ last_exc \in RunExceptions
            \/ pc = "exited" /\ last_exc \in {"SystemExit", "Exception"}
                 /\ global_step = 0 /\ ~run_synced)
    /\ [][Terminal => UNCHANGED <<pc, run_synced, metagraph_n, score_history,
                                  epoch_steps, global_step, run_committed,
                                  commit_calls, commit_vec>>]_vars

\* The process ended by sys.exit in __enter__ although restart_on_failure is set.
C12_Witness == pc = "exited" /\ last_exc = "SystemExit" /\ restart_on_failure

\* C13: once a KeyboardInterrupt has been delivered, no sync, step or commit
\* is begun.
C13_NothingAfterInterrupt ==
    [][interrupted => /\ run_synced' => run_synced
                      /\ global_step' = global_step
                      /\ commit_calls' = commit_calls]_vars

C16_BlockWindowDecides ==
    /\ [][/\ (pc = "while" /\ pc' = "step") => block < start_block + BlocksPerEpoch
          /\ (pc = "while" /\ pc' = "set_weights") =>
                block >= start_block + BlocksPerEpoch
          /\ (pc' = "step" /\ pc # "step") => pc = "while"
          /\ (pc' = "set_weights" /\ pc # "set_weights") => pc = "while"]_vars
    /\ [](pc = "set_weights" \/ run_committed => block >= start_block + BlocksPerEpoch)

\* Another step is started after a step of the same epoch run was made.
C16_Witness == pc = "step" /\ epoch_steps > 0 /\ block < start_block + BlocksPerEpoch

\* The moving average the current run's commit section read.
CommitAvg == MovingAvg(score_history, HistoryPeers(score_history))
\* The uids of the WeightVector the current run handed to set_weights.
CommitUids == { commit_vec.uids[i] : i \in 1..Len(commit_vec.uids) }

\* C17: the WeightVector handed to the commit has at most
\* K = min( n_topk_peer_weights, peers of the snapshot ) uids, no uid twice,
\* and no peer left out of it has a higher moving-average score than a peer
\* in it.
C17_TopKByMovingAverage ==
    run_committed =>
        \A avg \in {CommitAvg} :
            /\ Len(commit_vec.uids) <= Min(NTopkPeerWeights, metagraph_n)
            /\ Cardinality(CommitUids) = Len(commit_vec.uids)
            /\ \A u \in CommitUids : \A w \in Uids(metagraph_n) \ CommitUids :
                  ~Greater(avg[w], avg[u])

\* Two peers with different positive moving averages, K = 1: the vector holds
\* the higher one only.
C17_Witness ==
    /\ run_committed /\ metagraph_n = 2 /\ Len(commit_vec.uids) = 1
    /\ \E w \in Uids(metagraph_n) \ CommitUids :
          /\ CommitAvg[w].kind = "fin" /\ CommitAvg[w].val > 0
          /\ Greater(CommitAvg[commit_vec.uids[1]], CommitAvg[w])

\* C18: no uid whose moving-average score is negative is in the WeightVector
\* handed to the commit, and none would be for any K: top-K selection over
\* the run's moving average never returns such a uid.
C18_NoNegativeScoreSelected ==
    run_committed =>
        \A avg \in {CommitAvg} :
            /\ \A u \in CommitUids : ~Negative(avg[u])
            /\ \A i \in 1..Len(commit_vec.weights) : ~Negative(commit_vec.weights[i])
            /\ \A k \in 1..MaxPeers :
                  \A s \in UnbiasedTopk(avg, HistoryPeers(score_history), k) :
                     \A i \in 1..Len(s) : ~Negative(avg[s[i]])

\* Two peers, one of positive and one of negative moving average: the vector
\* holds the first, and selection with K = 2 still returns the first alone.
C18_Witness ==
    /\ run_committed /\ metagraph_n = 2 /\ Len(commit_vec.uids) = 1
    /\ \E w \in Uids(metagraph_n) \ CommitUids :
          CommitAvg[w].kind = "fin" /\ CommitAvg[w].val < 0
    /\ UnbiasedTopk(CommitAvg, 2, 2) = { commit_vec.uids }

RECURSIVE SumWeights(_, _)
SumWeights(w, k) == IF k = 0 THEN 0 ELSE w[k].val + SumWeights(w, k - 1)

\* C19: the WeightVector handed to the commit has as many weights as uids,
\* every weight is a non-negative number, and the weights sum to 1 unless
\* the vector is empty.
C19_WeightVectorNormalized ==
    run_committed =>
        /\ Len(commit_vec.uids) = Len(commit_vec.weights)
        /\ \A i \in 1..Len(commit_vec.weights) :
              commit_vec.weights[i].kind = "fin" /\ commit_vec.weights[i].val >= 0
        /\ \/ Len(commit_vec.uids) = 0
           \/ SumWeights(commit_vec.weights, Len(commit_vec.weights)) = commit_vec.den

\* C20: every uid of the WeightVector handed to the commit is a uid of the
\* metagraph snapshot the run's sync took, and that snapshot does not change
\* during the run, whatever the chain's registry does.
C20_UidsWithinSnapshot ==
    /\ [](run_committed => CommitUids \subseteq Uids(metagraph_n))
    /\ [][(run_synced /\ run_synced') => metagraph_n' = metagraph_n]_vars

\* A commit made after a peer joined the chain during the epoch run.
C20_Witness ==
    /\ run_committed /\ Len(commit_vec.uids) > 0
    /\ chain_n > metagraph_n /\ metagraph_n > 0

\* The sum of uid u's first k entries as a fraction n / d, one entry added
\* at a time.
RECURSIVE FracSum(_, _, _)
FracSum(h, u, k) ==
    IF k = 0 THEN [n |-> 0, d |-> 1]
    ELSE LET p == FracSum(h, u, k - 1)
         IN  [n |-> p.n * h[k].den + h[k].num[u] * p.d, d |-> p.d * h[k].den]

\* The history with its latest entry first.
Reversed(h) == [i \in 1..Len(h) |-> h[Len(h) + 1 - i]]

\* No step of the history had a zero score sum.
AllFinite(h) == \A t \in 1..Len(h) : h[t].den # 0

\* moving_avg_scores is per peer the arithmetic mean of that peer's entries
\* over the whole score_history (a zero entry counts as 0, the divisor is the
\* number of steps), and it is the same for the history in any order.
MeanOfHistory ==
        /\ moving_avg_scores # Unbound
        /\ Len(score_history) = epoch_steps /\ epoch_steps > 0
        /\ DOMAIN moving_avg_scores = Uids(metagraph_n)
        /\ \A den \in {AvgDen(score_history)} : \A u \in Uids(metagraph_n) :
              /\ (moving_avg_scores[u].kind = "fin") <=> AllFinite(score_history)
              /\ AllFinite(score_history) =>
                    \A f \in {FracSum(score_history, u, Len(score_history))} :
                        moving_avg_scores[u].val * (f.d * Len(score_history)) = f.n * den
        /\ moving_avg_scores = MovingAvg(Reversed(score_history), metagraph_n)

\* C21: after every step of an epoch run, moving_avg_scores is per peer the
\* arithmetic mean of that peer's entries over the whole score_history of the
\* run so far, a peer absent from a step counting 0 for it; the order of the
\* steps does not matter: no earlier step weighs less.
C21_MovingAverageIsMean ==
    (pc = "while" /\ epoch_steps > 0) => MeanOfHistory

\* Two steps whose entries for one peer are 0 and 1: its average is 1/2.
C21_Witness ==
    /\ moving_avg_scores # Unbound /\ Len(score_history) = 2
    /\ AllFinite(score_history)
    /\ \E u \in Uids(metagraph_n) :
          /\ score_history[1].num[u] = 0
          /\ score_history[2].num[u] = score_history[2].den
          /\ 2 * moving_avg_scores[u].val = AvgDen(score_history)

\* C29: the metagraph is synced exactly once in an epoch run, before the
\* first step, and nothing else changes it: every step of the run scores the
\* peers of that snapshot and the commit selects among them, whatever the
\* chain's registry does meanwhile.
C29_OneSyncPerEpochRun ==
    /\ [][(pc = "setup" /\ pc' \in {"reset", "start_block"}) =>
            (~run_synced /\ run_synced')]_vars
    /\ [][metagraph_n' # metagraph_n => (pc = "setup" /\ metagraph_n' = chain_n)]_vars
    /\ [](pc \in {"reset", "start_block", "while", "step", "set_weights"} => run_synced)
    /\ []((run_synced /\ pc \in RunPoints) =>
            \A t \in 1..Len(score_history) :
               DOMAIN score_history[t].num = Uids(metagraph_n))
    /\ [](run_committed => Len(commit_vec.uids) <= metagraph_n)

\* A further step of a run during which a peer joined the chain.
C29_Witness ==
    pc = "step" /\ epoch_steps > 0 /\ chain_n > metagraph_n /\ metagraph_n > 0

\* C30: after the setup of every epoch run score_history is empty and
\* moving_avg_scores unbound; during the run the history holds exactly the
\* entries this run's steps appended, and the moving average and the
\* WeightVector handed to the commit are computed from those alone.
C30_FreshEpochState ==
    /\ [](pc \in {"reset", "start_block"} =>
            (score_history = <<>> /\ epoch_steps = 0 /\ moving_avg_scores = Unbound))
    /\ [](pc \in {"while", "step", "set_weights"} => Len(score_history) = epoch_steps)
    /\ [][(pc \in {"while", "step", "set_weights"} /\ score_history' # score_history
            /\ pc' # "setup") =>
            (pc = "step" /\ Len(score_history') = Len(score_history) + 1
             /\ SubSeq(score_history', 1, Len(score_history)) = score_history)]_vars
    /\ [](run_committed =>
            \A i \in 1..Len(commit_vec.uids) :
               commit_vec.weights[i] = moving_avg_scores[commit_vec.uids[i]])

\* A run set up after an earlier run stepped and failed at its commit.
C30_Witness ==
    /\ pc = "start_block" /\ score_history = <<>> /\ moving_avg_scores = Unbound
    /\ global_step > 0 /\ commit_calls[0] > 0 /\ last_exc = "none"

\* C27: in every step the set of peers selected for querying has exactly
\* min(k, |pool|) members, all distinct, each a peer of the metagraph the step
\* was given.
C27_SelectedSetSize ==
    fpc \in {"routed", "queried", "scored", "appended"} =>
        /\ Len(f_routing_uids) = Min(NucleusTopk, f_n)
        /\ Cardinality(Range(f_routing_uids)) = Len(f_routing_uids)
        /\ Range(f_routing_uids) \subseteq Uids(f_n)

\* A pool smaller than k: every peer of it is selected.
C27_Witness ==
    /\ fpc = "routed"
    /\ f_n < NucleusTopk
    /\ Range(f_routing_uids) = Uids(f_n)

\* The k peers of highest gate output, the lowest uid preferred among equal
\* ones.
GateOrderTopk(n, gate, k) ==
    { u \in Uids(n) :
        Cardinality({ w \in Uids(n) :
            gate[w] > gate[u] \/ (gate[w] = gate[u] /\ w < u) }) < k }

\* C28 as stated: the selection is a function of the gate outputs, the pool
\* and k alone, and equal selection scores resolve to the lowest uid.
C28_DeterministicLowestUid ==
    fpc = "routed" =>
        Range(f_routing_uids) = GateOrderTopk(f_n, f_gate, RealTopk(f_n))

\* C28: the peers selected are RealTopk peers of highest noisy routing
\* weight, highest first: no peer left out has a weight above a selected
\* one's; and when no two noisy weights are equal the selection is the only
\* possible one.
C28_TopkOfNoisyWeights ==
    fpc = "routed" =>
        LET w == [u \in Uids(f_n) |-> f_gate[u] + f_noise[u]]
        IN  /\ \A i \in DOMAIN f_routing_uids : \A u \in Uids(f_n) \ Range(f_routing_uids) :
                  w[u] <= w[f_routing_uids[i]]
            /\ \A i, j \in DOMAIN f_routing_uids :
                  i < j => w[f_routing_uids[i]] >= w[f_routing_uids[j]]
            /\ (\A u, v \in Uids(f_n) : u # v => w[u] # w[v]) =>
                  \A s \in [DOMAIN f_routing_uids -> Uids(f_n)] :
                      (/\ \A i, j \in DOMAIN s : i # j => s[i] # s[j]
                       /\ \A i, j \in DOMAIN s : i < j => w[s[i]] >= w[s[j]]
                       /\ \A u \in Uids(f_n) \ Range(s) : \A i \in DOMAIN s : w[u] <= w[s[i]])
                      => s = f_routing_uids

\* The noise lifts a peer with the lower gate output over one with the
\* higher: the selection leaves out the peer of highest gate output.
C28_Witness ==
    /\ fpc = "routed"
    /\ \E u \in Uids(f_n) \ Range(f_routing_uids) : \E i \in DOMAIN f_routing_uids :
          /\ f_gate[u] > f_gate[f_routing_uids[i]]
          /\ f_gate[u] + f_noise[u] < f_gate[f_routing_uids[i]] + f_noise[f_routing_uids[i]]

\* The peers of a step whose return code is Success.
Succeeded == { f_routing_uids[i] : i \in { j \in DOMAIN f_routing_uids : f_return_ops[j] = "Success" } }
Returned == fpc \in {"scored", "appended"}

\* C22: the score forward returns for a queried peer p is the loss of the
\* aggregate without p less the loss of the full aggregate, and every
\* aggregate whose loss is computed is the full one or the full one without a
\* single peer.
C22_SingleExclusionScore ==
    Returned =>
        /\ \A p \in Range(f_routing_uids) :
              f_scores[p] = f_loss[Succeeded \ {p}] - f_loss[Succeeded]
        /\ \A A \in f_evaluated :
              A \subseteq Succeeded /\ Cardinality(Succeeded \ A) <= 1

\* Two peers answered, one improves the aggregate and the other degrades it.
C22_Witness ==
    /\ Returned
    /\ Cardinality(Succeeded) = 2
    /\ \E p, q \in Succeeded : f_scores[p] > 0 /\ f_scores[q] < 0

\* C23: a peer of the metagraph that was not selected for querying has score
\* 0 in what forward returns, and a zero numerator in the entry appended to
\* score_history.
C23_NotQueriedScoresZero ==
    \A u \in Uids(f_n) \ Range(f_routing_uids) :
        /\ Returned => f_scores[u] = 0
        /\ fpc = "appended" => f_entry.num[u] = 0

\* A peer was left out while a queried peer got a score other than 0.
C23_Witness ==
    /\ fpc = "appended"
    /\ Uids(f_n) \ Range(f_routing_uids) # {}
    /\ \E p \in Range(f_routing_uids) : f_scores[p] # 0

C25_AllFailedStepAppendsZeros ==
    (/\ fpc = "appended"
     /\ \A i \in DOMAIN f_return_ops : f_return_ops[i] # "Success") =>
        /\ f_exc = "none"
        /\ \A u \in Uids(f_n) :
              f_entry.num[u] = 0 /\ EntryKind(f_entry.num[u], f_entry.den) = "fin"

\* C26 as stated: with no peer in the metagraph the selection returns an
\* empty subset and raises nothing.
C26_EmptyPoolSelectsNothing ==
    (fpc # "idle" /\ f_n = 0) =>
        /\ f_exc = "none"
        /\ fpc # "raised"
        /\ f_routing_uids = <<>>

\* C32: a registry sync that raises ends the epoch run at once: no step and
\* no commit of that run is executed (both happen only in a run whose sync
\* returned), and the scheduler is back in its loop, where the next run can
\* start, with restart_on_failure set and stopped without it.
C32_SyncFailureEndsRun ==
    /\ [][(pc = "setup" /\ last_exc' = "Exception") =>
            /\ pc' = (IF restart_on_failure THEN "loop" ELSE "stopped")
            /\ ~run_synced' /\ ~run_committed'
            /\ global_step' = global_step /\ commit_calls' = commit_calls
            /\ score_history' = score_history]_vars
    /\ [][(global_step' # global_step \/ commit_calls' # commit_calls) => run_synced]_vars
    /\ []((pc = "loop" /\ restart_on_failure /\ last_exc = "Exception" /\ ~run_synced)
            => ENABLED RunLoop)
    /\ []((pc \in {"loop", "stopped"} /\ last_exc = "Exception" /\ ~run_synced)
            => (~run_committed /\ (pc = "stopped" <=> ~restart_on_failure)))

\* The sync of a restarted run failed after an earlier run had stepped, and
\* the scheduler is about to start the next run.
C32_Witness ==
    /\ pc = "loop" /\ restart_on_failure
    /\ last_exc = "Exception" /\ ~run_synced /\ ~run_committed
    /\ global_step > 0

\* C33 as stated: an epoch run that has ended without a chain query or a step
\* raising, and without an interrupt, has invoked the weight commit.
C33_RunReachesCommit ==
    (pc \in {"loop", "stopped"} /\ run_synced
        /\ last_exc \notin {"Exception", "KeyboardInterrupt"}) => run_committed

\* C34 as stated: the commit call of an epoch run that made at least one
\* step binds, so no error is raised at the call.
C34_CommitCallBinds ==
    (run_committed /\ epoch_steps > 0) => last_exc # "TypeError"

C36_NoCommitWithoutStep ==
    /\ [](run_committed => epoch_steps > 0)
    /\ [][(pc = "set_weights" /\ pc' # pc /\ epoch_steps = 0) =>
            /\ last_exc' \in {"UnboundLocalError", "KeyboardInterrupt"}
            /\ pc' \in {"loop", "stopped"}
            /\ ~run_committed' /\ commit_calls' = commit_calls]_vars
    /\ [](last_exc = "UnboundLocalError" => (epoch_steps = 0 /\ ~run_committed))

\* The block window had elapsed at the first test of the loop: the run ended
\* with UnboundLocalError.
C36_Witness ==
    /\ last_exc = "UnboundLocalError" /\ epoch_steps = 0
    /\ block >= start_block + BlocksPerEpoch

\* The sum of the moving average's numerators, over the peers 0..k.
RECURSIVE SumVals(_, _)
SumVals(avg, k) == IF k < 0 THEN 0 ELSE avg[k].val + SumVals(avg, k - 1)

\* C37: every entry of score_history is the step's score vector over its own
\* sum, so the elements of an entry of non-zero sum add up to 1; while no
\* step of the run had a zero sum the moving average adds up to 1 as well;
\* and the history has as many entries as the run completed steps.
C37_EntriesSumToOne ==
    pc \in {"while", "step", "set_weights"} =>
        /\ Len(score_history) = epoch_steps
        /\ \A t \in 1..Len(score_history) :
              score_history[t].den = SumTo(score_history[t].num, metagraph_n - 1)
        /\ (epoch_steps > 0 /\ AllFinite(score_history)) =>
              /\ \A u \in Uids(metagraph_n) : moving_avg_scores[u].kind = "fin"
              /\ SumVals(moving_avg_scores, metagraph_n - 1) = AvgDen(score_history)

\* Two steps of different non-zero sums, one of them negative.
C37_Witness ==
    /\ pc = "while" /\ epoch_steps = 2
    /\ score_history[1].den < 0 /\ score_history[2].den > 0
    /\ score_history[1].den # 0 - score_history[2].den

C38_RequirementsPerRecord ==
    (u_pc = "returned" /\ u_fn = "get_subnet_connection_requirements") =>
        /\ u_ret.kind = "dict"
        /\ DOMAIN u_ret.val = { Str(k) : k \in DOMAIN u_in.records }
        /\ \A k \in DOMAIN u_in.records : u_ret.val[Str(k)] = u_in.records[k]

\* C39 as stated: _do_burned_register returns a pair on every path:
\* (True, None) with both wait flags unset or when the ledger accepts,
\* (False, error message) when the ledger rejects.
C39_BurnedRegisterReturnsPair ==
    (u_pc = "returned" /\ u_fn = "_do_burned_register") =>
        /\ u_ret.kind = "tuple"
        /\ Len(u_ret.val) = 2
        /\ u_ret.val = (IF (~u_in.wfi /\ ~u_in.wff) \/ u_in.resp.is_success
                        THEN <<TRUE, NoneMsg>>
                        ELSE <<FALSE, u_in.resp.error_message>>)

\* C40 as stated: neuron_for_uid returns None when the uid given is None,
\* without a chain call, and when the chain's result is empty.
C40_NoNeuronReturnsNone ==
    (u_pc = "returned" /\ u_fn = "neuron_for_uid") =>
        /\ (u_in.uid = NoneV \/ u_in.result.empty \in EmptyResults) => u_ret.kind = "None"
        /\ u_in.uid = NoneV => u_queries = 0

====
